---- MODULE Spec2Model ----
(***************************************************************************)
(* Model of scripts/export-to-figma.js: the export orchestrator            *)
(* (prepareExport), its five steps and the CLI entry point (main), run     *)
(* against a small file system.                                            *)
(*                                                                         *)
(* Conventions.                                                            *)
(*  - A path is the sequence of its segments; "." segments are dropped     *)
(*    when a path is resolved, as path.join and the file system do.        *)
(*  - A JavaScript value is a record tagged by its type (field t).         *)
(*  - A JavaScript object whose key order matters (a JSON map) is the      *)
(*    sequence of its entries in iteration order.                          *)
(*  - Text is the sequence of its lines (the text split at "\n").          *)
(*  - String literals are written in ASCII: the emoji prefixes and the     *)
(*    diacritics of the source's literals are left out, and a backquote    *)
(*    of a Markdown literal is written as an apostrophe.                   *)
(***************************************************************************)
EXTENDS Integers, Sequences, FiniteSets

VARIABLES
  doc,          \* the token document ./tokens/design-tokens.json (never written)
  dirs,         \* the directories that exist (resolved paths)
  files,        \* output path -> content of the file there
  pc,           \* position of the running script
  i,            \* position of components.forEach in generateComponentSpecs
  figmaTokens,  \* the local figmaTokens of exportDesignTokens
  err,          \* the error thrown in this run ("none" when none)
  trace,        \* console lines and file system calls of this run, in order
  exitCode,     \* exit code of the process (-1 while it runs)
  run,          \* number of the current run of the script
  before,       \* files as they were when the current run started
  prevOk        \* the previous run ended without an error

vars == <<doc, dirs, files, pc, i, figmaTokens, err, trace, exitCode, run, before, prevOk>>

(***************************************************************************)
(* Bounds of the model.                                                    *)
(***************************************************************************)
MaxRuns == 2      \* runs of the script in one behaviour
MaxEntries == 2   \* entries of one map of the token document

(***************************************************************************)
(* JavaScript values.                                                      *)
(***************************************************************************)
Undefined == [t |-> "undefined", s |-> ""]
JsNull == [t |-> "null", s |-> ""]
Str(s) == [t |-> "string", s |-> s]
\* {} as parsed from JSON: inherits Object.prototype.toString
PlainObject == [t |-> "object", s |-> "{}"]
\* {"toString": null} as parsed from JSON: its own toString is not callable and
\* the inherited valueOf returns the object itself
NoToString == [t |-> "object", s |-> "{\"toString\":null}"]

\* ToBoolean, as used by the || and if of the source
Truthy(v) ==
  CASE v.t = "undefined" -> FALSE
    [] v.t = "null" -> FALSE
    [] v.t = "string" -> v.s # ""
    [] OTHER -> TRUE

\* a || b
Or(a, b) == IF Truthy(a) THEN a ELSE b

\* ToString, as applied by ${...} in a template literal, throws a TypeError
\* when the object has no callable toString / valueOf giving a primitive
ToStringThrows(v) == v = NoToString

ToString(v) ==
  CASE v.t = "undefined" -> "undefined"
    [] v.t = "null" -> "null"
    [] v.t = "string" -> v.s
    [] OTHER -> "[object Object]"

\* a token of the document: an object with optional value and description
Token(value, description) ==
  [t |-> "object", value |-> value, description |-> description]
\* a map entry whose value is null: reading token.value throws a TypeError
NullToken == [t |-> "null", value |-> Undefined, description |-> Undefined]

\* a JSON map in iteration order
Map(entries) == [t |-> "map", entries |-> entries]
Entry(name, token) == [name |-> name, token |-> token]

(***************************************************************************)
(* Paths (lines 12-16).                                                    *)
(***************************************************************************)
Resolve(p) == SelectSeq(p, LAMBDA seg : seg # ".")
PathJoin(a, b) == Resolve(a \o b)
Parent(p) == SubSeq(Resolve(p), 1, Len(Resolve(p)) - 1)

OUTPUT_DIR == <<".", "exports", "figma-ready">>
COMPONENTS_DIR == PathJoin(OUTPUT_DIR, <<"components">>)
PAGES_DIR == PathJoin(OUTPUT_DIR, <<"pages">>)
ASSETS_DIR == PathJoin(OUTPUT_DIR, <<"assets">>)
TOKENS_DIR == PathJoin(OUTPUT_DIR, <<"tokens">>)

tokensPath == <<".", "tokens", "design-tokens.json">>

(***************************************************************************)
(* The file system calls of the script.                                    *)
(***************************************************************************)
Absent == [kind |-> "absent"]
Stale == [kind |-> "stale"]          \* content left by something before the run
Truncated == [kind |-> "truncated"]  \* opened for writing, not written

\* fs.existsSync(dir)
ExistsSync(ds, p) == Resolve(p) = <<>> \/ Resolve(p) \in ds

\* fs.mkdirSync(dir, {recursive}): the error it throws and the directories after
MkdirSync(ds, p, recursive) ==
  LET r == Resolve(p) IN
  IF recursive
    THEN [err |-> "none", dirs |-> ds \cup {SubSeq(r, 1, k) : k \in 1..Len(r)}]
    ELSE IF r \in ds THEN [err |-> "EEXIST", dirs |-> ds]
    ELSE IF ~ExistsSync(ds, Parent(r)) THEN [err |-> "ENOENT", dirs |-> ds]
    ELSE [err |-> "none", dirs |-> ds \cup {r}]

\* writeFileSync with the flag 'wx': it refuses a path that exists
WriteFileSyncExclusive(ds, fs, p, content) ==
  IF ~ExistsSync(ds, Parent(p))
    THEN {[err |-> "ENOENT", files |-> fs]}
    ELSE IF fs[Resolve(p)] # [kind |-> "absent"]
    THEN {[err |-> "EEXIST", files |-> fs]}
    ELSE {[err |-> "none", files |-> [fs EXCEPT ![Resolve(p)] = content]],
          [err |-> "EACCES", files |-> fs],
          [err |-> "ENOSPC", files |-> [fs EXCEPT ![Resolve(p)] = [kind |-> "truncated"]]]}

\* fs.writeFileSync(path, content): the outcomes the environment allows.
\* A missing parent directory and a refused open leave the file as it was;
\* a write that fails after the open (disk full) leaves it truncated.
WriteFileSync(ds, fs, p, content) ==
  IF ~ExistsSync(ds, Parent(p))
    THEN {[err |-> "ENOENT", files |-> fs]}
    ELSE {[err |-> "none", files |-> [fs EXCEPT ![Resolve(p)] = content]],
          [err |-> "EACCES", files |-> fs],
          [err |-> "ENOSPC", files |-> [fs EXCEPT ![Resolve(p)] = Truncated]]}

\* console.log / console.error and file system calls, as recorded in trace
Event(op, step, line, path, e) ==
  [op |-> op, step |-> step, line |-> line, path |-> Resolve(path), err |-> e]
Log(step, line) == Event("log", step, line, <<>>, "none")

(***************************************************************************)
(* exportDesignTokens (lines 46-133): the conversion.                      *)
(***************************************************************************)
\* obj[key] = val on an object kept in insertion order
ObjSet(obj, key, val) ==
  IF \E k \in 1..Len(obj) : obj[k].key = key
    THEN [k \in 1..Len(obj) |->
            IF obj[k].key = key THEN [key |-> key, val |-> val] ELSE obj[k]]
    ELSE Append(obj, [key |-> key, val |-> val])

Figma(scopes) == [figma |-> [collection |-> "core", scopes |-> scopes]]

\* a color variable without the || "" of line 71
ColorVariableNoDefault(token) ==
  [type |-> "color",
   value |-> token.value,
   description |-> token.description,
   extensions |-> Figma(<<"ALL_SCOPES">>)]

\* lines 68-78
ColorVariable(token) ==
  [type |-> "color",
   value |-> token.value,
   description |-> Or(token.description, Str("")),
   extensions |-> Figma(<<"ALL_SCOPES">>)]

\* lines 83-92
SpacingVariable(token) ==
  [type |-> "dimension",
   value |-> token.value,
   extensions |-> Figma(<<"GAP", "SPACING", "WIDTH_HEIGHT">>)]

\* lines 98-107
TypographyVariable(token) ==
  [type |-> "dimension",
   value |-> token.value,
   extensions |-> Figma(<<"FONT_SIZE">>)]

ColorKey(name) == "color/" \o name
SpacingKey(name) == "spacing/" \o name
\* the key of the spacing block, left in the copied typography block
TypographyKeyCopied(name) == "spacing/" \o name
TypographyKey(name) == "typography/size/" \o name

\* Object.entries(x): throws a TypeError on undefined and null
EntriesThrows(x) == x.t \in {"undefined", "null"}
ObjectEntries(x) == IF x.t = "map" THEN x.entries ELSE <<>>

\* the forEach callbacks read token.value: a TypeError on a null token
ForEachThrows(entries) == \E k \in 1..Len(entries) : entries[k].token.t = "null"

RECURSIVE ConvertColors(_, _, _)
ConvertColors(entries, k, acc) ==
  IF k > Len(entries) THEN acc
  ELSE ConvertColors(entries, k + 1,
         ObjSet(acc, ColorKey(entries[k].name), ColorVariable(entries[k].token)))

RECURSIVE ConvertSpacing(_, _, _)
ConvertSpacing(entries, k, acc) ==
  IF k > Len(entries) THEN acc
  ELSE ConvertSpacing(entries, k + 1,
         ObjSet(acc, SpacingKey(entries[k].name), SpacingVariable(entries[k].token)))

RECURSIVE ConvertTypography(_, _, _)
ConvertTypography(entries, k, acc) ==
  IF k > Len(entries) THEN acc
  ELSE ConvertTypography(entries, k + 1,
         ObjSet(acc, TypographyKey(entries[k].name), TypographyVariable(entries[k].token)))

\* tokens.typography["font-size"] || {} (line 97)
FontSizes(typography) ==
  IF typography.t = "object" THEN Or(typography.fontSize, Map(<<>>)) ELSE Map(<<>>)

\* a conversion that reads the spacing and typography maps only after the
\* first write
ConvertErrorColorsOnly(d) ==
  IF d.file = "missing" THEN "ENOENT"
  ELSE IF d.file = "invalid" THEN "SyntaxError"
  ELSE IF d.root.t = "null" THEN "TypeError"
  ELSE IF EntriesThrows(d.root.colors) THEN "TypeError"
  ELSE IF ForEachThrows(ObjectEntries(d.root.colors)) THEN "TypeError"
  ELSE "none"

\* the error of lines 51-109, "none" when the document converts
ConvertError(d) ==
  IF d.file = "missing" THEN "ENOENT"                        \* readFileSync
  ELSE IF d.file = "invalid" THEN "SyntaxError"              \* JSON.parse
  ELSE IF d.root.t = "null" THEN "TypeError"                 \* tokens.colors
  ELSE IF EntriesThrows(d.root.colors) THEN "TypeError"
  ELSE IF ForEachThrows(ObjectEntries(d.root.colors)) THEN "TypeError"
  ELSE IF EntriesThrows(d.root.spacing) THEN "TypeError"
  ELSE IF ForEachThrows(ObjectEntries(d.root.spacing)) THEN "TypeError"
  ELSE IF Truthy(d.root.typography)
          /\ ForEachThrows(ObjectEntries(FontSizes(d.root.typography)))
    THEN "TypeError"
  ELSE "none"

\* figmaTokens after lines 54-109
Convert(root) ==
  LET colors == ConvertColors(ObjectEntries(root.colors), 1, <<>>)
      spacing == ConvertSpacing(ObjectEntries(root.spacing), 1, colors)
      all == IF Truthy(root.typography)
               THEN ConvertTypography(ObjectEntries(FontSizes(root.typography)), 1, spacing)
               ELSE spacing
  IN [version |-> "1.0.0",
      collections |-> [core |-> [name |-> "Core Tokens",
                                 modes |-> <<"light", "dark">>,
                                 variables |-> <<>>]],
      tokens |-> all]

\* JSON.stringify leaves out a property whose value is undefined
Dropped(v) == {f \in {"value", "description"} \cap DOMAIN v : v[f].t = "undefined"}
StringifyVariable(v) == [f \in DOMAIN v \ Dropped(v) |-> v[f]]

\* JSON.stringify(figmaTokens, null, 2) (line 113)
StringifyTokens(ft) ==
  [kind |-> "json", indent |-> 2,
   body |-> [version |-> ft.version,
             collections |-> ft.collections,
             tokens |-> [k \in 1..Len(ft.tokens) |->
                           [key |-> ft.tokens[k].key,
                            val |-> StringifyVariable(ft.tokens[k].val)]]]]

\* lines 120-122 and 124-126: the declarations of one map
\* the color template, left in the copied spacing template
SpacingDeclarationCopied(e) == "  --color-" \o e.name \o ": " \o ToString(e.token.value) \o ";"
ColorDeclaration(e) == "  --color-" \o e.name \o ": " \o ToString(e.token.value) \o ";"
SpacingDeclaration(e) == "  --spacing-" \o e.name \o ": " \o ToString(e.token.value) \o ";"

\* xs.join('\n') as lines: the empty join is one empty line
JoinLines(xs) == IF xs = <<>> THEN <<"">> ELSE xs

\* the template literal of lines 117-128 throws a TypeError when a callback
\* reads the value of a null token or a value has no string form
CssThrows(root) ==
  \/ ForEachThrows(ObjectEntries(root.colors))
  \/ ForEachThrows(ObjectEntries(root.spacing))
  \/ \E k \in 1..Len(ObjectEntries(root.colors)) :
       ToStringThrows(ObjectEntries(root.colors)[k].token.value)
  \/ \E k \in 1..Len(ObjectEntries(root.spacing)) :
       ToStringThrows(ObjectEntries(root.spacing)[k].token.value)

\* cssTokens (lines 117-128)
CssTokens(root) ==
  LET colors == ObjectEntries(root.colors)
      spacing == ObjectEntries(root.spacing)
  IN [kind |-> "text",
      lines |-> <<"", "/* Design Tokens para importacao no Figma */", ":root {">>
                \o JoinLines([k \in 1..Len(colors) |-> ColorDeclaration(colors[k])])
                \o <<"">>
                \o JoinLines([k \in 1..Len(spacing) |-> SpacingDeclaration(spacing[k])])
                \o <<"}", "">>]

(***************************************************************************)
(* generateComponentSpecs (lines 135-216).                                 *)
(***************************************************************************)
Component(name, description, props, states, variants) ==
  [name |-> name, description |-> description, props |-> props,
   states |-> states, variants |-> variants]

\* lines 138-174
components ==
  << Component("Header", "Cabecalho principal com navegacao",
               <<"currentPage", "onNavigate">>,
               <<"default", "mobile-menu-open">>, <<"desktop", "mobile">>),
     Component("PaymentModal", "Modal de pagamento reutilizavel",
               <<"isOpen", "type", "data", "onClose">>,
               <<"closed", "room-booking", "service-booking">>, <<"default">>),
     Component("RoomCard", "Card de quarto com informacoes",
               <<"room", "onViewDetails">>,
               <<"default", "hover">>, <<"grid", "list">>),
     Component("ServiceCard", "Card de servico",
               <<"service", "onViewDetails">>,
               <<"default", "hover">>, <<"default">>),
     Component("Footer", "Rodape com links e informacoes",
               <<>>,
               <<"default">>, <<"desktop", "mobile">>) >>

\* the template literal of lines 177-207
ComponentSpec(component) ==
  [kind |-> "text",
   lines |->
     <<"# " \o component.name, "", "## Descricao", component.description, "",
       "## Props">>
     \o JoinLines([k \in 1..Len(component.props) |-> "- '" \o component.props[k] \o "'"])
     \o <<"", "## Estados">>
     \o JoinLines([k \in 1..Len(component.states) |-> "- " \o component.states[k]])
     \o <<"", "## Variantes">>
     \o JoinLines([k \in 1..Len(component.variants) |-> "- " \o component.variants[k]])
     \o <<"", "## Implementacao", "'''tsx",
          "// Ver: /components/" \o component.name \o ".tsx", "'''", "",
          "## Design Guidelines",
          "- Usar Auto Layout para responsividade",
          "- Aplicar design tokens consistentes",
          "- Manter hierarquia visual clara",
          "- Estados de interacao (hover, active, disabled)", "",
          "## Figma Components",
          "1. Criar Component Set com variantes",
          "2. Configurar propriedades booleanas para estados",
          "3. Usar Instance Swap para conteudo dinamico",
          "4. Aplicar constraints para responsividade", "">>]

\* a file name that leaves the component's name out
ComponentPathFixed(component) == PathJoin(COMPONENTS_DIR, <<"component.md">>)

\* path.join(COMPONENTS_DIR, component.name + ".md") (line 210)
ComponentPath(component) == PathJoin(COMPONENTS_DIR, <<component.name \o ".md">>)

(***************************************************************************)
(* generatePagesGuide (lines 218-338).                                     *)
(***************************************************************************)
Page(name, path, description, comps) ==
  [name |-> name, path |-> path, description |-> description, components |-> comps,
   breakpoints |-> <<"desktop: 1440px", "tablet: 768px", "mobile: 375px">>]

\* lines 221-278
pages ==
  << Page("Home", "/",
          "Pagina inicial com hero, quartos em destaque, servicos e atracoes",
          <<"Header", "Hero", "FeaturedRooms", "ServicesPreview", "AttractionsPreview", "Footer">>),
     Page("Rooms", "/rooms", "Lista de quartos com filtros",
          <<"Header", "RoomCard", "Filters", "Pagination", "Footer">>),
     Page("Room Details", "/rooms/:id",
          "Detalhes do quarto com galeria e formulario de reserva",
          <<"Header", "Breadcrumb", "ImageGallery", "RoomInfo", "BookingForm", "Footer">>),
     Page("Services", "/services", "Lista de servicos do hotel",
          <<"Header", "ServiceCard", "Categories", "Footer">>),
     Page("Service Details", "/services/:id", "Detalhes do servico com agendamento",
          <<"Header", "Breadcrumb", "ServiceInfo", "ScheduleForm", "Footer">>),
     Page("Attractions", "/attractions", "Atracoes locais e pontos turisticos",
          <<"Header", "AttractionCard", "Map", "Filters", "Footer">>),
     Page("Login", "/login", "Pagina de login", <<"Header", "LoginForm", "Footer">>),
     Page("Register", "/register", "Pagina de cadastro",
          <<"Header", "RegisterForm", "Footer">>) >>

\* xs.join(', ')
RECURSIVE JoinComma(_)
JoinComma(xs) ==
  IF xs = <<>> THEN ""
  ELSE IF Len(xs) = 1 THEN xs[1]
  ELSE xs[1] \o ", " \o JoinComma(Tail(xs))

\* the section of one page (lines 287-294)
PageSection(page) ==
  <<"", "### " \o page.name,
    "- **Path:** '" \o page.path \o "'",
    "- **Descricao:** " \o page.description,
    "- **Componentes:** " \o JoinComma(page.components),
    "- **Breakpoints:** " \o JoinComma(page.breakpoints),
    "">>

RECURSIVE PageSections(_, _)
PageSections(ps, k) ==
  IF k > Len(ps) THEN <<>> ELSE PageSection(ps[k]) \o PageSections(ps, k + 1)

\* guide (lines 280-334): the header, the page sections, then the literal
\* sections Navegacao, Estados Globais, Responsividade and Figma Structure,
\* which substitute nothing and are kept as their headings
PagesGuide ==
  [kind |-> "text",
   lines |-> <<"# Guia de Paginas - Hotel Booking System", "", "## Overview",
               "Sistema de reservas de hotel com 8 paginas principais, todas responsivas e com navegacao integrada.",
               "", "## Paginas", "">>
             \o PageSections(pages, 1)
             \o <<"", "## Navegacao", "## Estados Globais", "## Responsividade",
                  "## Figma Structure", "">>]

PagesPath == PathJoin(PAGES_DIR, <<"README.md">>)

(***************************************************************************)
(* generateNavigationFlow (lines 340-415).                                 *)
(***************************************************************************)
Node(title, type, connections) ==
  [title |-> title, type |-> type, connections |-> connections]

\* lines 343-407
navigationFlow ==
  [title |-> "Hotel Booking - Navigation Flow",
   startNode |-> "home",
   nodes |->
     << [key |-> "home", val |-> Node("Home", "page", <<"rooms", "services", "attractions", "login">>)],
        [key |-> "rooms", val |-> Node("Rooms List", "page", <<"home", "room-details", "login">>)],
        [key |-> "room-details", val |-> Node("Room Details", "page", <<"rooms", "payment-modal">>)],
        [key |-> "services", val |-> Node("Services List", "page", <<"home", "service-details", "login">>)],
        [key |-> "service-details", val |-> Node("Service Details", "page", <<"services", "payment-modal">>)],
        [key |-> "attractions", val |-> Node("Attractions", "page", <<"home">>)],
        [key |-> "login", val |-> Node("Login", "page", <<"register", "home">>)],
        [key |-> "register", val |-> Node("Register", "page", <<"login", "home">>)],
        [key |-> "payment-modal", val |-> Node("Payment Modal", "overlay", <<"room-details", "service-details">>)] >>,
   interactions |->
     << [from |-> "home", to |-> "rooms", trigger |-> "header-nav", animation |-> "navigate"],
        [from |-> "room-details", to |-> "payment-modal", trigger |-> "book-now-button",
         animation |-> "modal-overlay"] >>]

\* JSON.stringify(navigationFlow, null, 2) (line 411): every value is defined
StringifyFlow(flow) == [kind |-> "json", indent |-> 2, body |-> flow]

NavigationPath == PathJoin(OUTPUT_DIR, <<"navigation-flow.json">>)

(***************************************************************************)
(* generateImportGuide (lines 417-581).                                    *)
(***************************************************************************)
\* guide (lines 420-577): a literal that substitutes nothing, kept as its
\* title and second-level headings
ImportGuide ==
  [kind |-> "text",
   lines |-> <<"# Guia de Importacao para Figma",
               "## Checklist de Preparacao",
               "## Importacao no Figma",
               "## Configuracao do Design System",
               "## Configurar Prototipo",
               "## Responsividade",
               "## Finalizacao",
               "## Links Uteis",
               "## Tips & Tricks", "">>]

ImportGuidePath == PathJoin(OUTPUT_DIR, <<"IMPORT-GUIDE.md">>)

FigmaVariablesPath == PathJoin(TOKENS_DIR, <<"figma-variables.json">>)
TokensCssPath == PathJoin(TOKENS_DIR, <<"tokens.css">>)

\* every path the script writes
OutputPaths ==
  {FigmaVariablesPath, TokensCssPath, PagesPath, NavigationPath, ImportGuidePath}
  \cup {ComponentPath(components[k]) : k \in 1..Len(components)}

(***************************************************************************)
(* The token documents and output trees the script is run on.              *)
(***************************************************************************)
\* the sequences of at most MaxEntries entries of pool with distinct names
RECURSIVE MapsOfLen(_, _)
MapsOfLen(pool, n) ==
  IF n = 0 THEN {<<>>}
  ELSE {Append(m, e) : m \in MapsOfLen(pool, n - 1), e \in pool}

DistinctNames(m) == \A a, b \in 1..Len(m) : a # b => m[a].name # m[b].name

Maps(pool) ==
  {Map(m) : m \in {x \in UNION {MapsOfLen(pool, n) : n \in 0..MaxEntries} : DistinctNames(x)}}

ColorPool ==
  {Entry("primary", Token(Str("#FF0000"), Str("Brand"))),
   Entry("primary", Token(Undefined, Undefined)),
   Entry("sm", Token(Str("#00FF00"), Undefined)),
   Entry("sm", NullToken),
   Entry("odd", Token(NoToString, Undefined)),
   Entry("odd", Token(PlainObject, Str("")))}

SpacingPool ==
  {Entry("sm", Token(Str("4px"), Undefined)),
   Entry("sm", NullToken),
   Entry("primary", Token(Str("8px"), Str("Base"))),
   Entry("primary", Token(Undefined, Undefined)),
   Entry("odd", Token(NoToString, Undefined))}

FontSizePool ==
  {Entry("sm", Token(Str("12px"), Undefined)),
   Entry("lg", Token(NoToString, Str("Large"))),
   Entry("lg", NullToken)}

Typographies ==
  {Undefined, [t |-> "object", fontSize |-> Undefined]}
  \cup {[t |-> "object", fontSize |-> m] : m \in Maps(FontSizePool)}

Root(colors, spacing, typography) ==
  [t |-> "object", colors |-> colors, spacing |-> spacing, typography |-> typography]

Json(root) == [file |-> "json", root |-> root]
Missing == [file |-> "missing", root |-> JsNull]   \* no file at tokensPath
Invalid == [file |-> "invalid", root |-> JsNull]   \* a file that is not JSON

\* every token document of the bounds
Docs ==
  {Missing, Invalid, Json(JsNull)}
  \cup {Json(Root(c, s, t)) : c \in Maps(ColorPool) \cup {Undefined},
                              s \in Maps(SpacingPool) \cup {Undefined},
                              t \in Typographies}

\* the example of the specification's section 8
ExampleDoc ==
  Json(Root(Map(<<Entry("primary", Token(Str("#FF0000"), Undefined))>>),
            Map(<<Entry("sm", Token(Str("4px"), Undefined))>>),
            Undefined))

\* the documents the whole script is run on
MainDocs ==
  {Missing, Invalid, Json(JsNull), ExampleDoc,
   Json(Root(Undefined, Map(<<Entry("sm", Token(Str("4px"), Undefined))>>), Undefined)),
   Json(Root(Map(<<Entry("sm", Token(Str("#00FF00"), Undefined)),
                   Entry("primary", Token(Str("#FF0000"), Str("Brand")))>>),
             Map(<<Entry("primary", Token(Str("8px"), Str("Base")))>>),
             [t |-> "object", fontSize |-> Map(<<Entry("sm", Token(Str("12px"), Undefined))>>)])),
   Json(Root(Map(<<Entry("primary", Token(Str("#FF0000"), Str("Brand")))>>),
             Undefined, Undefined)),
   Json(Root(Map(<<>>), Map(<<>>),
             [t |-> "object", fontSize |-> Map(<<Entry("lg", NullToken)>>)])),
   Json(Root(Map(<<Entry("odd", Token(NoToString, Undefined))>>),
             Map(<<Entry("sm", Token(Str("4px"), Undefined))>>),
             Undefined))}

AllDirs ==
  {<<"exports">>, Resolve(OUTPUT_DIR), COMPONENTS_DIR, PAGES_DIR, ASSETS_DIR, TOKENS_DIR}

\* the output trees a run can find: nothing, only ./exports, a partial tree
\* with a stale file, a complete stale tree
Trees ==
  {[dirs |-> {}, files |-> [p \in OutputPaths |-> Absent]],
   [dirs |-> {<<"exports">>}, files |-> [p \in OutputPaths |-> Absent]],
   [dirs |-> {<<"exports">>, Resolve(OUTPUT_DIR), TOKENS_DIR},
    files |-> [p \in OutputPaths |-> IF p = TokensCssPath THEN Stale ELSE Absent]],
   [dirs |-> AllDirs, files |-> [p \in OutputPaths |-> Stale]]}

NoTokens == [version |-> "", collections |-> <<>>, tokens |-> <<>>]

(***************************************************************************)
(* prepareExport (lines 18-44) and main (lines 584-597).                   *)
(***************************************************************************)
Steps ==
  <<"exportDesignTokens", "generateComponentSpecs", "generatePagesGuide",
    "generateNavigationFlow", "generateImportGuide">>

\* steps 2 and 3 of prepareExport in the other order
StepAfterSwapped(step) ==
  CASE step = "exportDesignTokens" -> "generatePagesGuide"
    [] step = "generatePagesGuide" -> "generateComponentSpecs"
    [] step = "generateComponentSpecs" -> "generateNavigationFlow"
    [] step = "generateNavigationFlow" -> "generateImportGuide"
    [] step = "generateImportGuide" -> "prepareExportDone"

\* the statement prepareExport runs after a step returns (lines 29-43)
StepAfter(step) ==
  CASE step = "exportDesignTokens" -> "generateComponentSpecs"
    [] step = "generateComponentSpecs" -> "generatePagesGuide"
    [] step = "generatePagesGuide" -> "generateNavigationFlow"
    [] step = "generateNavigationFlow" -> "generateImportGuide"
    [] step = "generateImportGuide" -> "prepareExportDone"

\* a step that throws is run again
OnThrowRetry(step) == step

\* a try/catch around each step that lets prepareExport go on
OnThrowContinue(step) == StepAfter(step)

\* where control goes when a step throws: prepareExport has no try/catch, so
\* its promise rejects and main's await throws (lines 29-41, 585)
OnThrow(step) == "rejected"

\* the callback of lines 22-26 on one directory
CreateDir(ds, dir) ==
  IF ~ExistsSync(ds, dir)
    THEN LET r == MkdirSync(ds, dir, TRUE)
         IN [called |-> TRUE, err |-> r.err, dirs |-> r.dirs]
    ELSE [called |-> FALSE, err |-> "none", dirs |-> ds]

\* the forEach of lines 22-26 from the k-th directory on: it stops at the
\* first callback that throws
RECURSIVE MakeDirs(_, _, _)
MakeDirs(ds, list, k) ==
  IF k > Len(list) THEN [err |-> "none", dirs |-> ds, calls |-> <<>>]
  ELSE LET r == CreateDir(ds, list[k])
           call == IF r.called
                     THEN <<Event("mkdir", "prepareExport", "", list[k], r.err)>>
                     ELSE <<>>
       IN IF r.err # "none"
            THEN [err |-> r.err, dirs |-> r.dirs, calls |-> call]
            ELSE LET rest == MakeDirs(r.dirs, list, k + 1)
                 IN [err |-> rest.err, dirs |-> rest.dirs, calls |-> call \o rest.calls]

Write(step, p, e) == Event("write", step, "", p, e)

\* lines 585, 19-26: main calls prepareExport, which logs and creates the tree
PrepareExport ==
  /\ pc = "main"
  /\ LET r == MakeDirs(dirs, <<OUTPUT_DIR, COMPONENTS_DIR, PAGES_DIR, ASSETS_DIR, TOKENS_DIR>>, 1)
     IN /\ dirs' = r.dirs
        /\ trace' = trace \o <<Log("prepareExport", "Preparando exportacao para Figma...")>>
                          \o r.calls
        /\ err' = r.err
        /\ pc' = IF r.err = "none" THEN "exportDesignTokens" ELSE "rejected"
  /\ UNCHANGED <<doc, files, i, figmaTokens, exitCode, run, before, prevOk>>

\* lines 47-109: read, parse and convert the token document
ExportDesignTokens ==
  /\ pc = "exportDesignTokens"
  /\ LET e == ConvertError(doc)
         readErr == IF e = "ENOENT" THEN e ELSE "none"
     IN /\ trace' = trace \o <<Log("exportDesignTokens", "Exportando design tokens..."),
                               Event("read", "exportDesignTokens", "", tokensPath, readErr)>>
        /\ err' = e
        /\ IF e = "none"
             THEN /\ figmaTokens' = Convert(doc.root)
                  /\ pc' = "writeFigmaVariables"
             ELSE /\ figmaTokens' = figmaTokens
                  /\ pc' = OnThrow("exportDesignTokens")
  /\ UNCHANGED <<doc, dirs, files, i, exitCode, run, before, prevOk>>

\* lines 111-114
WriteFigmaVariables ==
  /\ pc = "writeFigmaVariables"
  /\ \E r \in WriteFileSync(dirs, files, FigmaVariablesPath, StringifyTokens(figmaTokens)) :
       /\ files' = r.files
       /\ trace' = Append(trace, Write("exportDesignTokens", FigmaVariablesPath, r.err))
       /\ err' = r.err
       /\ pc' = IF r.err = "none" THEN "writeTokensCss" ELSE OnThrow("exportDesignTokens")
  /\ UNCHANGED <<doc, dirs, i, figmaTokens, exitCode, run, before, prevOk>>

\* lines 117-132
WriteTokensCss ==
  /\ pc = "writeTokensCss"
  /\ IF CssThrows(doc.root)
       THEN /\ err' = "TypeError"
            /\ pc' = OnThrow("exportDesignTokens")
            /\ UNCHANGED <<files, trace>>
       ELSE \E r \in WriteFileSync(dirs, files, TokensCssPath, CssTokens(doc.root)) :
              /\ files' = r.files
              /\ err' = r.err
              /\ IF r.err = "none"
                   THEN /\ trace' = trace \o <<Write("exportDesignTokens", TokensCssPath, r.err),
                                               Log("exportDesignTokens", "Design tokens exportados")>>
                        /\ pc' = StepAfter("exportDesignTokens")
                   ELSE /\ trace' = Append(trace, Write("exportDesignTokens", TokensCssPath, r.err))
                        /\ pc' = OnThrow("exportDesignTokens")
  /\ figmaTokens' = NoTokens
  /\ UNCHANGED <<doc, dirs, i, exitCode, run, before, prevOk>>

\* lines 136, 176-215: one turn of components.forEach; the first turn follows
\* the progress line, the last is followed by the completion line
GenerateComponentSpecs ==
  /\ pc = "generateComponentSpecs"
  /\ LET step == "generateComponentSpecs"
         component == components[i]
         start == IF i = 1
                    THEN <<Log(step, "Gerando especificacoes de componentes...")>>
                    ELSE <<>>
     IN \E r \in WriteFileSync(dirs, files, ComponentPath(component), ComponentSpec(component)) :
          /\ files' = r.files
          /\ err' = r.err
          /\ IF r.err # "none"
               THEN /\ trace' = trace \o start \o <<Write(step, ComponentPath(component), r.err)>>
                    /\ pc' = OnThrow(step)
                    /\ i' = 1
               ELSE IF i < Len(components)
               THEN /\ trace' = trace \o start \o <<Write(step, ComponentPath(component), r.err)>>
                    /\ pc' = pc
                    /\ i' = i + 1
               ELSE /\ trace' = trace \o start
                                  \o <<Write(step, ComponentPath(component), r.err),
                                       Log(step, "Especificacoes de componentes geradas")>>
                    /\ pc' = StepAfter(step)
                    /\ i' = 1
  /\ UNCHANGED <<doc, dirs, figmaTokens, exitCode, run, before, prevOk>>

\* a step that logs, writes one file and logs
WriteOne(step, startLine, p, content, doneLine) ==
  /\ \E r \in WriteFileSync(dirs, files, p, content) :
       /\ files' = r.files
       /\ err' = r.err
       /\ IF r.err = "none"
            THEN /\ trace' = trace \o <<Log(step, startLine), Write(step, p, r.err),
                                        Log(step, doneLine)>>
                 /\ pc' = StepAfter(step)
            ELSE /\ trace' = trace \o <<Log(step, startLine), Write(step, p, r.err)>>
                 /\ pc' = OnThrow(step)
  /\ UNCHANGED <<doc, dirs, i, figmaTokens, exitCode, run, before, prevOk>>

\* lines 218-338
GeneratePagesGuide ==
  /\ pc = "generatePagesGuide"
  /\ WriteOne("generatePagesGuide", "Gerando guia de paginas...", PagesPath, PagesGuide,
     "Guia de paginas gerado")

\* lines 340-415
GenerateNavigationFlow ==
  /\ pc = "generateNavigationFlow"
  /\ WriteOne("generateNavigationFlow", "Gerando fluxo de navegacao...", NavigationPath,
     StringifyFlow(navigationFlow), "Fluxo de navegacao gerado")

\* lines 417-581
GenerateImportGuide ==
  /\ pc = "generateImportGuide"
  /\ WriteOne("generateImportGuide", "Gerando guia de importacao...", ImportGuidePath,
     ImportGuide, "Guia de importacao gerado")

\* line 43, then lines 587-592 of main; the process ends with nothing pending
MainDone ==
  /\ pc = "prepareExportDone"
  /\ trace' = trace \o
       <<Log("prepareExport", "Exportacao preparada em: ./exports/figma-ready"),
         Log("main", "Exportacao completa!"),
         Log("main", "Proximos passos:"),
         Log("main", "1. Execute: node scripts/capture-screens.js"),
         Log("main", "2. Abra o Figma e siga o guia: exports/figma-ready/IMPORT-GUIDE.md"),
         Log("main", "3. Use screenshots como referencia para recriar componentes"),
         Log("main", "4. Configure prototipo interativo com navegacao")>>
  /\ pc' = "exited"
  /\ exitCode' = 0
  /\ UNCHANGED <<doc, dirs, files, i, figmaTokens, err, run, before, prevOk>>

\* line 596: main().catch(console.error) handles the rejection: the error is
\* printed, nothing rethrows and process.exitCode is never set
MainCatch ==
  /\ pc = "rejected"
  /\ trace' = Append(trace, Event("error", "main", err, <<>>, err))
  /\ pc' = "exited"
  /\ exitCode' = 0
  /\ UNCHANGED <<doc, dirs, files, i, figmaTokens, err, run, before, prevOk>>

\* the script is run again on the tree the last run left
Rerun ==
  /\ pc = "exited"
  /\ run < MaxRuns
  /\ run' = run + 1
  /\ pc' = "main"
  /\ before' = files
  /\ prevOk' = (err = "none")
  /\ err' = "none"
  /\ trace' = <<>>
  /\ exitCode' = -1
  /\ i' = 1
  /\ figmaTokens' = NoTokens
  /\ UNCHANGED <<doc, dirs, files>>

Start(d, tree, at) ==
  /\ doc = d
  /\ dirs = tree.dirs
  /\ files = tree.files
  /\ pc = at
  /\ i = 1
  /\ figmaTokens = NoTokens
  /\ err = "none"
  /\ trace = <<>>
  /\ exitCode = -1
  /\ run = 1
  /\ before = tree.files
  /\ prevOk = FALSE

\* node scripts/export-to-figma.js
Init == \E d \in MainDocs, tree \in Trees : Start(d, tree, "main")

Next ==
  \/ PrepareExport
  \/ ExportDesignTokens
  \/ WriteFigmaVariables
  \/ WriteTokensCss
  \/ GenerateComponentSpecs
  \/ GeneratePagesGuide
  \/ GenerateNavigationFlow
  \/ GenerateImportGuide
  \/ MainDone
  \/ MainCatch
  \/ Rerun

Spec == Init /\ [][Next]_vars

\* exportDesignTokens alone, on every token document of the bounds, in the
\* tree prepareExport has created
CreatedTree == [dirs |-> AllDirs, files |-> [p \in OutputPaths |-> Absent]]

InitTokens == \E d \in Docs : Start(d, CreatedTree, "exportDesignTokens")

NextTokens ==
  \/ ExportDesignTokens
  \/ WriteFigmaVariables
  \/ WriteTokensCss

SpecTokens == InitTokens /\ [][NextTokens]_vars

(***************************************************************************)
(* Properties.                                                             *)
(***************************************************************************)
Range(seq) == {seq[k] : k \in 1..Len(seq)}
Exited == pc = "exited"
Failed == err # "none"
ErrorPrinted == \E e \in Range(trace) : e.op = "error" /\ e.line = err

\* C1: when the script has ended, its exit code is 0 if every step succeeded
\* and non-zero if a step failed, and in the failing case the error has been
\* printed to the console.
C1_ExitCodeTellsFailure ==
  Exited => /\ (~Failed => exitCode = 0)
            /\ (Failed => exitCode # 0 /\ ErrorPrinted)

\* the token document is missing or malformed: unreadable, not JSON, or
\* without a colors or a spacing map
Malformed(d) ==
  \/ d.file \in {"missing", "invalid"}
  \/ d.root.t = "null"
  \/ d.root.colors.t = "undefined"
  \/ d.root.spacing.t = "undefined"

LaterSteps ==
  {"generateComponentSpecs", "generatePagesGuide", "generateNavigationFlow",
   "generateImportGuide"}

TokenStepStarted == \E e \in Range(trace) : e.step = "exportDesignTokens"

\* C2: with a missing or malformed token document exportDesignTokens fails
\* and prepareExport rejects: no later step is ever started, nothing is
\* written, and every output file is as it was before the run.
C2_MalformedAborts ==
  Malformed(doc) =>
    /\ pc \in {"main", "exportDesignTokens", "rejected", "exited"}
    /\ \A e \in Range(trace) : e.step \notin LaterSteps /\ e.op # "write"
    /\ TokenStepStarted => Failed /\ pc \in {"rejected", "exited"}
    /\ files = before

C2_Witness ==
  /\ Malformed(doc)
  /\ doc.file = "json"
  /\ TokenStepStarted
  /\ pc = "rejected"
  /\ err = "TypeError"

\* the emitted documents, once written
FigmaWritten == files[FigmaVariablesPath].kind = "json"
CssWritten == files[TokensCssPath].kind = "text"
EmittedTokens == files[FigmaVariablesPath].body.tokens

\* the entries of the document's maps, in iteration order
InputEntries(m) == IF m.t = "map" THEN m.entries ELSE <<>>
InColors == InputEntries(doc.root.colors)
InSpacing == InputEntries(doc.root.spacing)
InFontSizes ==
  IF doc.root.typography.t = "object"
    THEN InputEntries(doc.root.typography.fontSize)
    ELSE <<>>

KeysOf(obj) == {obj[k].key : k \in 1..Len(obj)}
Has(obj, key) == key \in KeysOf(obj)
Get(obj, key) == (CHOOSE e \in Range(obj) : e.key = key).val

TypeAndScopes(v, type, scopes) ==
  /\ v.type = type
  /\ v.extensions.figma.scopes = scopes

\* C3: the tokens object of the emitted Figma-variables document has exactly
\* N+M+T entries for N color, M spacing and T typography font-size entries,
\* under pairwise distinct keys, and each entry has the type and the scopes
\* of its category.
C3_CountTypeScopes ==
  FigmaWritten =>
    /\ Len(EmittedTokens) = Len(InColors) + Len(InSpacing) + Len(InFontSizes)
    /\ Cardinality(KeysOf(EmittedTokens)) = Len(EmittedTokens)
    /\ \A e \in Range(InColors) :
         /\ Has(EmittedTokens, "color/" \o e.name)
         /\ TypeAndScopes(Get(EmittedTokens, "color/" \o e.name), "color", <<"ALL_SCOPES">>)
    /\ \A e \in Range(InSpacing) :
         /\ Has(EmittedTokens, "spacing/" \o e.name)
         /\ TypeAndScopes(Get(EmittedTokens, "spacing/" \o e.name), "dimension",
                          <<"GAP", "SPACING", "WIDTH_HEIGHT">>)
    /\ \A e \in Range(InFontSizes) :
         /\ Has(EmittedTokens, "typography/size/" \o e.name)
         /\ TypeAndScopes(Get(EmittedTokens, "typography/size/" \o e.name), "dimension",
                          <<"FONT_SIZE">>)

\* a document with entries of all three categories, a name shared by them
C3_Witness ==
  /\ FigmaWritten
  /\ Len(InColors) = 2
  /\ Len(InSpacing) = 2
  /\ Len(InFontSizes) = 1
  /\ \E c \in Range(InColors), sp \in Range(InSpacing), f \in Range(InFontSizes) :
       c.name = sp.name /\ sp.name = f.name
  /\ Len(EmittedTokens) = 5

AllFields == {"type", "value", "description", "extensions"}

Carries(v, token) ==
  /\ DOMAIN v = AllFields
  /\ v.value = token.value
  /\ DOMAIN v.extensions.figma = {"collection", "scopes"}

\* C4: every input token entry of every category produces one entry under
\* tokens["<category>/<name>"] that carries type, value, description,
\* extensions.figma.collection and extensions.figma.scopes, its value being
\* the input token's value.
C4_EveryEntryAllFields ==
  FigmaWritten =>
    /\ \A e \in Range(InColors) :
         /\ Has(EmittedTokens, "color/" \o e.name)
         /\ Carries(Get(EmittedTokens, "color/" \o e.name), e.token)
    /\ \A e \in Range(InSpacing) :
         /\ Has(EmittedTokens, "spacing/" \o e.name)
         /\ Carries(Get(EmittedTokens, "spacing/" \o e.name), e.token)
    /\ \A e \in Range(InFontSizes) :
         /\ Has(EmittedTokens, "typography/size/" \o e.name)
         /\ Carries(Get(EmittedTokens, "typography/size/" \o e.name), e.token)

HasValue(token) == token.value.t # "undefined"

\* the fields an emitted entry carries: value only when the token has one
CarriesOf(v, token, others) ==
  /\ DOMAIN v = others \cup (IF HasValue(token) THEN {"value"} ELSE {})
  /\ HasValue(token) => v.value = token.value
  /\ DOMAIN v.extensions.figma = {"collection", "scopes"}
  /\ v.extensions.figma.collection = "core"

\* C4 (amended): every input token entry produces one entry under
\* tokens["color/<name>"], tokens["spacing/<name>"] or
\* tokens["typography/size/<name>"] that carries type,
\* extensions.figma.collection and extensions.figma.scopes, and value, equal
\* to the input token's value, when the input token has a value. Only color
\* entries carry description: the input's description, or "" when the input
\* has none; spacing and typography entries carry no description.
C4_FieldsByCategory ==
  FigmaWritten =>
    /\ \A e \in Range(InColors) :
         /\ Has(EmittedTokens, "color/" \o e.name)
         /\ LET v == Get(EmittedTokens, "color/" \o e.name)
            IN /\ CarriesOf(v, e.token, {"type", "description", "extensions"})
               /\ v.description = IF e.token.description.t = "string"
                                    THEN e.token.description ELSE Str("")
    /\ \A e \in Range(InSpacing) :
         /\ Has(EmittedTokens, "spacing/" \o e.name)
         /\ CarriesOf(Get(EmittedTokens, "spacing/" \o e.name), e.token,
                      {"type", "extensions"})
    /\ \A e \in Range(InFontSizes) :
         /\ Has(EmittedTokens, "typography/size/" \o e.name)
         /\ CarriesOf(Get(EmittedTokens, "typography/size/" \o e.name), e.token,
                      {"type", "extensions"})

\* a color without a description and without a value, a spacing token with a
\* description, a typography size
C4_Witness ==
  /\ FigmaWritten
  /\ \E e \in Range(InColors) : ~HasValue(e.token) /\ e.token.description.t = "undefined"
  /\ \E e \in Range(InSpacing) : e.token.description.t = "string" /\ HasValue(e.token)
  /\ InFontSizes # <<>>

CssLines == files[TokensCssPath].lines

\* the lines of the CSS that are not blank, the comment or a brace line
Declarations ==
  SelectSeq(CssLines,
            LAMBDA l : l \notin {"", "/* Design Tokens para importacao no Figma */",
                                 ":root {", "}"})

Count(seq, x) == Cardinality({k \in 1..Len(seq) : seq[k] = x})
IndexOf(seq, x) == CHOOSE k \in 1..Len(seq) : seq[k] = x

\* <value> as a template literal renders it
Rendered(value) ==
  IF value.t = "string" THEN value.s
  ELSE IF value.t = "undefined" THEN "undefined"
  ELSE "[object Object]"

\* C5: the emitted CSS has one ":root" block holding exactly one
\* "--color-<name>: <value>;" declaration per color entry, in the order of
\* the colors map, then exactly one "--spacing-<name>: <value>;" declaration
\* per spacing entry, in the order of the spacing map, and no declaration
\* for any other token.
C5_CssDeclarations ==
  CssWritten =>
    /\ Count(CssLines, ":root {") = 1
    /\ Count(CssLines, "}") = 1
    /\ \A k \in 1..Len(CssLines) :
         CssLines[k] \in Range(Declarations) =>
           IndexOf(CssLines, ":root {") < k /\ k < IndexOf(CssLines, "}")
    /\ Declarations =
         [k \in 1..Len(InColors) |->
            "  --color-" \o InColors[k].name \o ": " \o Rendered(InColors[k].token.value) \o ";"]
         \o [k \in 1..Len(InSpacing) |->
            "  --spacing-" \o InSpacing[k].name \o ": " \o Rendered(InSpacing[k].token.value) \o ";"]

\* two colors, two spacing entries with the colors' names in the other
\* order, and a typography size, all emitted
C5_Witness ==
  /\ CssWritten
  /\ Len(InColors) = 2
  /\ Len(InSpacing) = 2
  /\ InColors[1].name = InSpacing[2].name
  /\ InColors[2].name = InSpacing[1].name
  /\ InFontSizes # <<>>
  /\ Len(Declarations) = 4

(***************************************************************************)
(* The output tree, as the specification lists it.                         *)
(***************************************************************************)
Out(rest) == <<"exports", "figma-ready">> \o rest

\* the ten output files in the order the script writes them
WriteOrder ==
  << Out(<<"tokens", "figma-variables.json">>),
     Out(<<"tokens", "tokens.css">>),
     Out(<<"components", "Header.md">>),
     Out(<<"components", "PaymentModal.md">>),
     Out(<<"components", "RoomCard.md">>),
     Out(<<"components", "ServiceCard.md">>),
     Out(<<"components", "Footer.md">>),
     Out(<<"pages", "README.md">>),
     Out(<<"navigation-flow.json">>),
     Out(<<"IMPORT-GUIDE.md">>) >>

\* the step that writes the k-th file
OwnerOf(k) ==
  IF k <= 2 THEN "exportDesignTokens"
  ELSE IF k <= 7 THEN "generateComponentSpecs"
  ELSE IF k = 8 THEN "generatePagesGuide"
  ELSE IF k = 9 THEN "generateNavigationFlow"
  ELSE "generateImportGuide"

\* what a run that succeeds on document d writes to the k-th file
ExpectedContent(d, k) ==
  IF k = 1 THEN StringifyTokens(Convert(d.root))
  ELSE IF k = 2 THEN CssTokens(d.root)
  ELSE IF k <= 7 THEN ComponentSpec(components[k - 2])
  ELSE IF k = 8 THEN PagesGuide
  ELSE IF k = 9 THEN StringifyFlow(navigationFlow)
  ELSE ImportGuide

Succeeded == Exited /\ ~Failed
EnvErrors == {"EACCES", "ENOSPC"}

\* C6: a run after a successful run on the same token document does not fail
\* because the directories and files exist (only a write the environment
\* refuses can fail it) and, when it succeeds, leaves every output file with
\* the content the first run left; the files a successful run leaves are
\* those of the token document, whatever the tree held before.
C6_RerunSameFiles ==
  /\ Succeeded =>
       /\ DOMAIN files = Range(WriteOrder)
       /\ \A k \in 1..Len(WriteOrder) : files[WriteOrder[k]] = ExpectedContent(doc, k)
  /\ (Exited /\ run > 1 /\ prevOk) =>
       /\ err \in {"none"} \cup EnvErrors
       /\ \A e \in Range(trace) : e.op = "mkdir" => e.err = "none"
       /\ ~Failed => files = before

\* a second run that succeeded after a first that succeeded from a stale tree
C6_Witness ==
  /\ Succeeded
  /\ run = 2
  /\ prevOk
  /\ files = before
  /\ files[Out(<<"tokens", "tokens.css">>)].kind = "text"
  /\ Out(<<"assets">>) \in dirs

StepNo(step) ==
  CASE step = "exportDesignTokens" -> 1
    [] step = "generateComponentSpecs" -> 2
    [] step = "generatePagesGuide" -> 3
    [] step = "generateNavigationFlow" -> 4
    [] step = "generateImportGuide" -> 5
    [] OTHER -> 0

\* the files each step writes
FilesOf(n) == Cardinality({k \in 1..Len(WriteOrder) : StepNo(OwnerOf(k)) = n})

Positions == 1..Len(trace)
OfAStep(k) == StepNo(trace[k].step) > 0
OkWrite(k) == trace[k].op = "write" /\ trace[k].err = "none"

\* step n has written all of its files and logged its completion line
Completed(n, upto) ==
  /\ Cardinality({k \in 1..upto : OkWrite(k) /\ StepNo(trace[k].step) = n}) = FilesOf(n)
  /\ \E k \in 1..upto :
       /\ trace[k].op = "log"
       /\ StepNo(trace[k].step) = n
       /\ \A j \in 1..upto : StepNo(trace[j].step) = n => j <= k

SuccessLine == "Exportacao preparada em: ./exports/figma-ready"

\* C7: in every run the directories are created first and the five steps run
\* in the fixed order, one at a time: a step starts, with its progress line,
\* only after the previous step has completed all of its file writes, and the
\* final success line is logged only after the fifth step has completed.
C7_StepsInOrder ==
  /\ \A k \in Positions :
       trace[k].op = "mkdir" => \A j \in 1..k : trace[j].step = "prepareExport"
  /\ \A k \in Positions :
       OfAStep(k) => \A d \in {OUTPUT_DIR, COMPONENTS_DIR, PAGES_DIR, ASSETS_DIR, TOKENS_DIR} :
                       Resolve(d) \in dirs
  /\ \A j, k \in Positions :
       (j < k /\ OfAStep(j) /\ OfAStep(k)) => StepNo(trace[j].step) <= StepNo(trace[k].step)
  /\ \A k \in Positions :
       (OfAStep(k) /\ (k = 1 \/ trace[k - 1].step # trace[k].step)) =>
         /\ trace[k].op = "log"
         /\ StepNo(trace[k].step) > 1 => Completed(StepNo(trace[k].step) - 1, k - 1)
         /\ StepNo(trace[k].step) = 1 => trace[k - 1].step = "prepareExport"
  /\ \A k \in Positions :
       (trace[k].op = "log" /\ trace[k].line = SuccessLine) => Completed(5, k - 1)

C7_Witness ==
  /\ Succeeded
  /\ \E k \in Positions : trace[k].op = "mkdir"
  /\ \E k \in Positions : trace[k].op = "log" /\ trace[k].line = SuccessLine
  /\ \A n \in 1..5 : Completed(n, Len(trace))

Writes == {k \in Positions : trace[k].op = "write"}

\* C8: the steps write disjoint paths: every write is to one of the ten
\* output files and made by the step that owns it, a successful run writes
\* each of the ten exactly once, and no step reads a file a step writes.
C8_DisjointOutputs ==
  /\ Cardinality(Range(WriteOrder)) = 10
  /\ \A k \in Writes :
       \E n \in 1..Len(WriteOrder) : trace[k].path = WriteOrder[n] /\ trace[k].step = OwnerOf(n)
  /\ \A j, k \in Writes : trace[j].path = trace[k].path => j = k
  /\ Succeeded =>
       /\ Cardinality(Writes) = 10
       /\ {trace[k].path : k \in Writes} = Range(WriteOrder)
       /\ \A k \in Writes : OkWrite(k)
  /\ \A k \in Positions : trace[k].op = "read" => trace[k].path \notin Range(WriteOrder)

C8_Witness ==
  /\ Succeeded
  /\ Cardinality(Writes) = 10
  /\ \E k \in Positions : trace[k].op = "read"

FailedWrites == {k \in Writes : trace[k].err # "none"}
Fresh == {trace[k].path : k \in {w \in Writes : OkWrite(w)}}

\* C9: no rollback and no retry. The files written so far in a run are a
\* prefix of the write order and hold their new content; a write that fails
\* is the last call of the run, made once, and its error leaves prepareExport
\* as a rejection; every file after it is as it was before the run.
C9_NoRollbackNoRetry ==
  \E n \in 0..Len(WriteOrder) :
    /\ Fresh = {WriteOrder[k] : k \in 1..n}
    /\ \A k \in 1..n : files[WriteOrder[k]] = ExpectedContent(doc, k)
    /\ \A k \in (n + 2)..Len(WriteOrder) : files[WriteOrder[k]] = before[WriteOrder[k]]
    /\ IF FailedWrites = {}
         THEN n < Len(WriteOrder) => files[WriteOrder[n + 1]] = before[WriteOrder[n + 1]]
         ELSE /\ n < Len(WriteOrder)
              /\ Cardinality(FailedWrites) = 1
              /\ \A k \in FailedWrites :
                   /\ trace[k].path = WriteOrder[n + 1]
                   /\ \A j \in (k + 1)..Len(trace) : trace[j].op = "error"
                   /\ err = trace[k].err
              /\ files[WriteOrder[n + 1]] \in {before[WriteOrder[n + 1]], Truncated}
              /\ pc \in {"rejected", "exited"}

\* the write of the third component failed after the disk filled up
C9_Witness ==
  /\ Exited
  /\ err = "ENOSPC"
  /\ Fresh = {WriteOrder[k] : k \in 1..4}
  /\ files[WriteOrder[5]] = Truncated
  /\ files[WriteOrder[6]] = Stale
  /\ ErrorPrinted

HasNull(entries) == \E e \in Range(entries) : e.token.t = "null"

\* the failures of the token document the claim lists: a missing file,
\* invalid JSON, a missing colors or spacing map, a null token entry
ListedFailure(d) ==
  \/ Malformed(d)
  \/ HasNull(InputEntries(d.root.colors))
  \/ HasNull(InputEntries(d.root.spacing))
  \/ /\ d.root.typography.t = "object"
     /\ HasNull(InputEntries(d.root.typography.fontSize))

\* a color or spacing value a template literal cannot render
Unrenderable(d) ==
  \E e \in Range(InputEntries(d.root.colors)) \cup Range(InputEntries(d.root.spacing)) :
    e.token.value = [t |-> "object", s |-> "{\"toString\":null}"]

\* the run failed, and not at a write
InputFailure == Failed /\ FailedWrites = {}

\* C10: a failure caused by the token document happens before the first file
\* write: it leaves figma-variables.json and tokens.css, and every other
\* output file, unchanged.
C10_InputFailureWritesNothing ==
  InputFailure => Writes = {} /\ files = before

\* C10 (amended): a missing file, invalid JSON, a missing colors or spacing
\* map and a null token entry fail the step before its first write and leave
\* every output file unchanged. The one other failure the token document can
\* cause comes after the first write: a color or spacing value with no string
\* form (such as {"toString": null}) makes the CSS template throw a
\* TypeError once figma-variables.json has been written, and tokens.css is
\* left as it was.
C10_ListedFailuresWriteNothing ==
  /\ (TokenStepStarted /\ ListedFailure(doc)) =>
       /\ InputFailure
       /\ pc \in {"rejected", "exited"}
       /\ Writes = {}
       /\ files = before
  /\ (InputFailure /\ ~ListedFailure(doc)) =>
       /\ Unrenderable(doc)
       /\ err = "TypeError"
       /\ {trace[k].path : k \in Writes} = {WriteOrder[1]}
       /\ files[WriteOrder[1]] = ExpectedContent(doc, 1)
       /\ \A k \in 2..Len(WriteOrder) : files[WriteOrder[k]] = before[WriteOrder[k]]

\* a null typography size after colors and spacing entries that convert
C10_Witness ==
  /\ pc = "rejected"
  /\ TokenStepStarted
  /\ ~Malformed(doc)
  /\ InColors # <<>> /\ ~HasNull(InColors)
  /\ InSpacing # <<>> /\ ~HasNull(InSpacing)
  /\ HasNull(InFontSizes)
  /\ files = before

====
